---- MODULE Spec2Model ----
(***************************************************************************)
(* A model of YAHOO.BLARGON.widget.ElementRotator                          *)
(* (src/src/js/elementrotator.js).                                         *)
(*                                                                         *)
(* A page holds up to two rotators.  Each rotator owns a container (its    *)
(* childNodes), its configuration attributes, the array _elements, the     *)
(* index _current, the inline styles of its child nodes, its pending       *)
(* setTimeout callbacks and its running YAHOO.util.Anim animations.  The   *)
(* rotators of a page share the browser's clock and cookie jar.            *)
(*                                                                         *)
(* Time is the epoch clock in milliseconds, read modulo ClockCycle (a      *)
(* common multiple of every period d = 1000 * show_duration, so that       *)
(* getTime() % d is what the code computes) and advanced in steps of Tick. *)
(* Timers and animations keep the milliseconds they have left; a timer     *)
(* fires, and an animation completes, exactly when nothing is left.        *)
(* Opacity is kept in hundredths (Opaque = 100 is the style value 1).      *)
(***************************************************************************)
EXTENDS Integers, Sequences, FiniteSets

VARIABLES
    now,        \* (new Date()).getTime(), modulo ClockCycle
    page,       \* the rotators constructed on the page
    attrs,      \* attrs[i]: configuration attributes of rotator i
    nodes,      \* nodes[i]: nodeType of each childNode of the container
    style,      \* style[i][p]: inline style of childNode p
    _elements,  \* _elements[i]: positions in nodes[i] of the prepared elements
    _current,   \* _current[i]: current element index (0-based)
    rendered,   \* rendered[i]: render() has been called
    timers,     \* timers[i]: milliseconds left of each pending setTimeout
    anims,      \* anims[i]: animations in flight
    cookies,    \* cookies[name]: the stored 'current' sub-cookie string
    calls,      \* calls[i]: which collaborator calls rotator i has issued
    instant,    \* instant[i]: what rotator i did at the present instant
    trail,      \* trail[i]: the last values of _current[i], oldest first
    again       \* again[i]: render() has been called a second time

vars == <<now, page, attrs, nodes, style, _elements, _current, rendered,
          timers, anims, cookies, calls, instant, trail, again>>

\* ------------------------------------------------------------------ bounds
MaxNodes  == 3     \* childNodes of a container
MaxStored == 3     \* largest index a cookie left by an earlier visit holds

\* ------------------------------------------------------- values and units
Insts == {1, 2}

\* nodeType of a child node: 1 is an element, 3 is a text node
NodeTypes == {1, 3}

\* JavaScript values that are not indices
NaN       == -1     \* the result of x % 0
Null      == -2     \* Cookie.getSub when the cookie or the sub-cookie is absent
Undefined == 0      \* elements[idx] for an idx that is no index of the array

\* opacity in hundredths
Opaque      == 100
Transparent == 0

\* configured durations in seconds; the clock advances half a second a step
ShowDurations == {1, 2}
FadeDurations == {1, 2}
Tick          == 1000 \div 2
ClockCycle    == 1000 * 2

CookieNames == {"elementrotator"}
NoCookie    == "<none>"
DigitStr    == <<"0", "1", "2", "3", "4", "5">>

\* _CONFIG_DEFAULTS
SHOW_DURATION == 5
FADE_DURATION == 1

\* what a configuration object may give for a duration: nothing or a value
\* that is no number (Null), NaN, a negative number, 0, or a positive number
SuppliedDurations == {Null, NaN, 0 - 3, 0, 1, 2}

Supplied ==
    [show_duration : SuppliedDurations, fade_duration : SuppliedDurations,
     clock_sync : BOOLEAN, cookie_persist : BOOLEAN, cookie_name : CookieNames]

\* Lang.isNumber: of type number and finite
isNumber(v) == v \notin {Null, NaN}

\* the validator of the duration attributes
DurationValidator(v) == isNumber(v)

\* setAttributeConfig(key, { value: def, validator: ... }) and then the set
\* of setAttributes: a value the validator refuses leaves the default
Attribute(def, v) == IF DurationValidator(v) THEN v ELSE def

Configs ==
    [show_duration : ShowDurations, fade_duration : FadeDurations,
     clock_sync : BOOLEAN, cookie_persist : BOOLEAN, cookie_name : CookieNames]

Containers == UNION {[1..n -> NodeTypes] : n \in 0..MaxNodes}

\* style of a node the widget has not touched
DefaultStyle == [visibility |-> "visible", opacity |-> Opaque, zIndex |-> 0]

\* ------------------------------------------------------------ JavaScript
\* a % n on numbers, for a >= 0: NaN when n is 0 or a is NaN; the sign of n
\* does not count
JSMod(a, n) ==
    IF a = NaN \/ n = 0 THEN NaN ELSE a % (IF n < 0 THEN 0 - n ELSE n)

JSInc(a) == IF a = NaN THEN NaN ELSE a + 1

\* if(v): 0, NaN and null are falsy
Truthy(v) == v \notin {0, NaN, Null}

\* String(v), as Cookie.setSub stores a number
String(v) == IF v \in 0..(Len(DigitStr) - 1) THEN DigitStr[v + 1] ELSE "NaN"

\* Number(s), the converter handed to Cookie.getSub
Number(s) ==
    IF \E k \in 1..Len(DigitStr) : DigitStr[k] = s
    THEN (CHOOSE k \in 1..Len(DigitStr) : DigitStr[k] = s) - 1
    ELSE NaN

\* elements[idx]
ElementAt(elements, idx) ==
    IF idx \in 0..(Len(elements) - 1) THEN elements[idx + 1] ELSE Undefined

\* Dom.setStyle(node, prop, val); a missing node is left alone
setStyle(st, node, prop, val) ==
    IF node = Undefined THEN st ELSE [st EXCEPT ![node][prop] = val]

\* ----------------------------------------------------------- the cookie
\* Cookie.getSub(name, 'current', Number)
getSub(name) == IF cookies[name] = NoCookie THEN Null ELSE Number(cookies[name])

\* a Cookie.setSub that stores nothing
setSubLost(name, value) == cookies

\* Cookie.setSub(name, 'current', value, settings)
setSub(name, value) == [cookies EXCEPT ![name] = String(value)]

\* --------------------------------------------------------------- indices
\* an _initCurrent that never reads the cookie
_initCurrentUnread(i) == _current[i]

\* _initCurrent: the value of this._current it leaves and returns
_initCurrent(i) ==
    IF attrs[i].cookie_persist
    THEN LET current == getSub(attrs[i].cookie_name)
         IN  IF Truthy(current) THEN current ELSE _current[i]
    ELSE _current[i]

\* an _advanceCurrent that wraps one index too late
_advanceCurrentLate(c, total) == JSMod(JSInc(c), total + 1)

\* an _advanceCurrent that never reaches the last index
_advanceCurrentShort(c, total) ==
    IF total >= 2 THEN JSMod(JSInc(c), total - 1) ELSE JSMod(JSInc(c), total)

\* an _advanceCurrent that leaves the index where it is
_advanceCurrentStill(c, total) == c

\* _advanceCurrent: (this._current + 1) % this._elements.length
_advanceCurrent(c, total) == JSMod(JSInc(c), total)

\* ------------------------------------------------------------- scheduling
\* a delay that ignores clock_sync
DelayUnsynced(i) == 1000 * attrs[i].show_duration

\* a delay that syncs with the clock whatever clock_sync says
DelayAlwaysSynced(i) ==
    LET d == 1000 * attrs[i].show_duration
    IN  d - (now % d)

\* a synced delay taken modulo d, so that it is 0 on a boundary of the grid
DelayWrapped(i) ==
    LET d == 1000 * attrs[i].show_duration
    IN  IF attrs[i].clock_sync THEN (d - (now % d)) % d ELSE d

\* the delay _schedule hands to setTimeout
Delay(i) ==
    LET d == 1000 * attrs[i].show_duration
    IN  IF attrs[i].clock_sync
        THEN IF JSMod(now, d) = NaN THEN NaN ELSE d - JSMod(now, d)
        ELSE d

\* a _schedule that arms the timeout twice
_scheduleTwice(i) == Append(Append(timers[i], Delay(i)), Delay(i))

\* _schedule: the pending timeouts after setTimeout(..., t)
_schedule(i) == Append(timers[i], Delay(i))

\* keep the last MaxNodes + 1 values of the index
Trail(tr, c) ==
    LET t == Append(tr, c)
    IN  IF Len(t) > MaxNodes + 1 THEN Tail(t) ELSE t

\* ---------------------------------------------------------------- render
\* positions of the element nodes among the first n child nodes
RECURSIVE ElementNodes(_, _)
ElementNodes(ns, n) ==
    IF n = 0 THEN <<>>
    ELSE IF ns[n] = 1 THEN Append(ElementNodes(ns, n - 1), n)
         ELSE ElementNodes(ns, n - 1)

\* a render loop that leaves every element opaque
PrepareOpaque(i, current) ==
    LET els == ElementNodes(nodes[i], Len(nodes[i]))
    IN  [p \in DOMAIN style[i] |->
            IF \E j \in 1..Len(els) : els[j] = p
            THEN LET j == (CHOOSE k \in 1..Len(els) : els[k] = p) - 1
                 IN  [visibility |-> IF j = current THEN "visible" ELSE "hidden",
                      opacity    |-> Opaque,
                      zIndex     |-> j]
            ELSE style[i][p]]

\* a render loop that counts every child node for the zIndex
PrepareByNode(i, current) ==
    LET els == ElementNodes(nodes[i], Len(nodes[i]))
    IN  [p \in DOMAIN style[i] |->
            IF \E j \in 1..Len(els) : els[j] = p
            THEN LET j == (CHOOSE k \in 1..Len(els) : els[k] = p) - 1
                 IN  [visibility |-> IF j = current THEN "visible" ELSE "hidden",
                      opacity    |-> IF j = current THEN Opaque ELSE Transparent,
                      zIndex     |-> p - 1]
            ELSE style[i][p]]

\* the loop of render: styles of the children once every element is prepared
Prepare(i, current) ==
    LET els == ElementNodes(nodes[i], Len(nodes[i]))
    IN  [p \in DOMAIN style[i] |->
            IF \E j \in 1..Len(els) : els[j] = p
            THEN LET j == (CHOOSE k \in 1..Len(els) : els[k] = p) - 1
                 IN  [visibility |-> IF j = current THEN "visible" ELSE "hidden",
                      opacity    |-> IF j = current THEN Opaque ELSE Transparent,
                      zIndex     |-> j]
            ELSE style[i][p]]

\* the body of render
Rendering(i) ==
    /\ rendered' = [rendered EXCEPT ![i] = TRUE]
    /\ instant' = [instant EXCEPT ![i] = @ \cup {"render"}]
    /\ IF Len(nodes[i]) # 0
       THEN LET current == _initCurrent(i)
            IN  /\ _current' = [_current EXCEPT ![i] = current]
                /\ _elements' = [_elements EXCEPT
                                   ![i] = ElementNodes(nodes[i], Len(nodes[i]))]
                /\ style' = [style EXCEPT ![i] = Prepare(i, current)]
                /\ timers' = [timers EXCEPT ![i] = _schedule(i)]
                /\ calls' = [calls EXCEPT ![i] = @ \cup {"setTimeout"} \cup
                               (IF attrs[i].cookie_persist THEN {"getSub"} ELSE {})]
                /\ trail' = [trail EXCEPT ![i] = <<current>>]
       ELSE UNCHANGED <<_current, _elements, style, timers, calls, trail>>
    /\ UNCHANGED <<now, page, attrs, nodes, anims, cookies>>

\* render, called once the rotator is constructed
render(i) ==
    /\ i \in page
    /\ ~rendered[i]
    /\ Rendering(i)
    /\ UNCHANGED again

\* render, called on a rotator that is already running
rerender(i) ==
    /\ i \in page
    /\ rendered[i]
    /\ ~again[i]
    /\ Rendering(i)
    /\ again' = [again EXCEPT ![i] = TRUE]

\* -------------------------------------------------------------- _advance
\* drop the k-th entry of a sequence
Drop(s, k) == SubSeq(s, 1, k - 1) \o SubSeq(s, k + 1, Len(s))

\* the first pending timeout that is due
DueTimer(i) == CHOOSE k \in 1..Len(timers[i]) :
                  /\ timers[i][k] = 0
                  /\ \A m \in 1..(k - 1) : timers[i][m] # 0

\* an _advance that leaves the opacity of the first element alone on a wrap
AdvanceStyleUnsnapped(st, next, idxNext) ==
    setStyle(st, next, "visibility", "visible")

\* the styles _advance sets before the animation starts
AdvanceStyle(st, next, idxNext) ==
    IF idxNext # 0
    THEN setStyle(st, next, "visibility", "visible")
    ELSE setStyle(setStyle(st, next, "visibility", "visible"),
                  next, "opacity", Opaque)

\* a NewAnim that always animates the outgoing element
NewAnimOutgoing(i, st, current, next, idxNext) ==
    [el    |-> current,
     from  |-> IF current = Undefined THEN NaN ELSE st[current].opacity,
     to    |-> IF idxNext # 0 THEN Opaque ELSE Transparent,
     total |-> 1000 * attrs[i].fade_duration,
     left  |-> 1000 * attrs[i].fade_duration,
     hide  |-> current,
     clear |-> idxNext # 0]

\* new Anim(el, { opacity: { to: ... } }, fade_duration) once animate() has
\* read the opacity it starts from; hide is the element onComplete hides and
\* clear tells whether onComplete also sets its opacity to 0
NewAnim(i, st, current, next, idxNext) ==
    LET el == IF idxNext # 0 THEN next ELSE current
    IN  [el    |-> el,
         from  |-> IF el = Undefined THEN NaN ELSE st[el].opacity,
         to    |-> IF idxNext # 0 THEN Opaque ELSE Transparent,
         total |-> 1000 * attrs[i].fade_duration,
         left  |-> 1000 * attrs[i].fade_duration,
         hide  |-> current,
         clear |-> idxNext # 0]

_advance(i) ==
    /\ i \in page
    /\ \E k \in 1..Len(timers[i]) : timers[i][k] = 0
    /\ LET elements   == _elements[i]
           total      == Len(elements)
           idxCurrent == _current[i]
           idxNext    == JSMod(JSInc(idxCurrent), total)
           current    == ElementAt(elements, idxCurrent)
           next       == ElementAt(elements, idxNext)
           st         == AdvanceStyle(style[i], next, idxNext)
           newCurrent == _advanceCurrent(_current[i], total)
       IN  /\ timers' = [timers EXCEPT ![i] = Drop(@, DueTimer(i))]
           /\ style' = [style EXCEPT ![i] = st]
           /\ _current' = [_current EXCEPT ![i] = newCurrent]
           /\ trail' = [trail EXCEPT ![i] = Trail(@, newCurrent)]
           /\ cookies' = IF attrs[i].cookie_persist
                         THEN setSub(attrs[i].cookie_name, newCurrent)
                         ELSE cookies
           /\ calls' = [calls EXCEPT ![i] = @ \cup {"advance"} \cup
                          (IF attrs[i].cookie_persist THEN {"setSub"} ELSE {})]
           /\ anims' = [anims EXCEPT
                          ![i] = Append(@, NewAnim(i, st, current, next, idxNext))]
           /\ instant' = [instant EXCEPT ![i] = @ \cup {"advance"}]
    /\ UNCHANGED <<now, page, attrs, nodes, _elements, rendered, again>>

\* ------------------------------------------------------------- animation
\* the opacity an animation sets once `left` milliseconds remain
Tween(a, left) == a.from + ((a.to - a.from) * (a.total - left)) \div a.total

\* one frame of each animation in flight, in the order they were started
RECURSIVE Frames(_, _, _)
Frames(st, as, k) ==
    IF k > Len(as) THEN st
    ELSE Frames(setStyle(st, as[k].el, "opacity", Tween(as[k], as[k].left - Tick)),
                as, k + 1)

\* the first animation in flight that has run its duration
DueAnim(i) == CHOOSE k \in 1..Len(anims[i]) :
                 /\ anims[i][k].left = 0
                 /\ \A m \in 1..(k - 1) : anims[i][m].left # 0

\* the anim.onComplete subscriber of _advance
onComplete(i) ==
    /\ i \in page
    /\ \E k \in 1..Len(anims[i]) : anims[i][k].left = 0
    /\ LET a == anims[i][DueAnim(i)]
           st == IF a.clear
                 THEN setStyle(setStyle(style[i], a.hide, "opacity", Transparent),
                               a.hide, "visibility", "hidden")
                 ELSE setStyle(style[i], a.hide, "visibility", "hidden")
       IN  /\ style' = [style EXCEPT ![i] = st]
           /\ anims' = [anims EXCEPT ![i] = Drop(@, DueAnim(i))]
           /\ timers' = [timers EXCEPT ![i] = _schedule(i)]
           /\ calls' = [calls EXCEPT ![i] = @ \cup {"setTimeout"}]
    /\ UNCHANGED <<now, page, attrs, nodes, _elements, _current, rendered,
                   cookies, instant, trail, again>>

\* ------------------------------------------------------------------ time
\* nothing is due: every timeout and every animation has time left
Quiet == \A i \in page :
            /\ \A k \in 1..Len(timers[i]) : timers[i][k] # 0
            /\ \A k \in 1..Len(anims[i]) : anims[i][k].left # 0

\* pending timeouts, Tick milliseconds later
RECURSIVE RunDown(_)
RunDown(ts) ==
    IF ts = <<>> THEN <<>> ELSE <<Head(ts) - Tick>> \o RunDown(Tail(ts))

\* animations in flight, Tick milliseconds later
RECURSIVE Animate(_)
Animate(as) ==
    IF as = <<>> THEN <<>>
    ELSE <<[Head(as) EXCEPT !.left = @ - Tick]>> \o Animate(Tail(as))

\* the clock advances by Tick; pending timeouts and animations run down
Elapse ==
    /\ Quiet
    /\ now' = (now + Tick) % ClockCycle
    /\ timers' = [i \in Insts |-> RunDown(timers[i])]
    /\ anims' = [i \in Insts |-> Animate(anims[i])]
    /\ style' = [i \in Insts |-> Frames(style[i], anims[i], 1)]
    /\ instant' = [i \in Insts |-> {}]
    /\ UNCHANGED <<page, attrs, nodes, _elements, _current, rendered, cookies,
                   calls, trail, again>>

\* ------------------------------------------------------- specifications
\* the state once the rotators of the page are constructed
Constructed ==
    /\ now = 0
    /\ attrs \in [Insts -> Configs]
    /\ nodes \in [Insts -> Containers]
    /\ style = [i \in Insts |-> [p \in 1..Len(nodes[i]) |-> DefaultStyle]]
    /\ _elements = [i \in Insts |-> <<>>]
    /\ _current = [i \in Insts |-> 0]
    /\ rendered = [i \in Insts |-> FALSE]
    /\ timers = [i \in Insts |-> <<>>]
    /\ anims = [i \in Insts |-> <<>>]
    /\ calls = [i \in Insts |-> {}]
    /\ instant = [i \in Insts |-> {}]
    /\ trail = [i \in Insts |-> <<>>]
    /\ again = [i \in Insts |-> FALSE]

\* what is left unused when rotator i is not on the page
Absent(i) ==
    /\ nodes[i] = <<>>
    /\ attrs[i] = [show_duration |-> 1, fade_duration |-> 1, clock_sync |-> FALSE,
                   cookie_persist |-> FALSE, cookie_name |-> "elementrotator"]

\* one rotator; the cookie jar may hold what an earlier visit left
Init ==
    /\ page = {1}
    /\ Constructed
    /\ Absent(2)
    /\ cookies \in [CookieNames -> {NoCookie} \cup {String(k) : k \in 0..MaxStored}]

\* two clock-synced rotators with the same configuration on one page, each
\* container holding elements only, in a fresh browser
InitPair ==
    /\ page = {1, 2}
    /\ Constructed
    /\ attrs[1] = attrs[2]
    /\ attrs[1].clock_sync
    /\ \A i \in page : Len(nodes[i]) >= 1 /\ \A p \in 1..Len(nodes[i]) : nodes[i][p] = 1
    /\ cookies = [n \in CookieNames |-> NoCookie]

\* initAttributes(cfg), run by the constructor of rotator i
initAttributes(i, cfg) ==
    /\ i \notin page
    /\ page' = page \cup {i}
    /\ attrs' = [attrs EXCEPT ![i] =
                   [show_duration  |-> Attribute(SHOW_DURATION, cfg.show_duration),
                    fade_duration  |-> Attribute(FADE_DURATION, cfg.fade_duration),
                    clock_sync     |-> cfg.clock_sync,
                    cookie_persist |-> cfg.cookie_persist,
                    cookie_name    |-> cfg.cookie_name]]
    /\ UNCHANGED <<now, nodes, style, _elements, _current, rendered, timers,
                   anims, cookies, calls, instant, trail, again>>

\* the page before its one rotator is constructed
InitConfig ==
    /\ page = {}
    /\ Constructed
    /\ Absent(2)
    /\ attrs[1] = attrs[2]
    /\ cookies = [n \in CookieNames |-> NoCookie]

Next ==
    \/ \E i \in Insts : render(i)
    \/ \E i \in Insts : _advance(i)
    \/ \E i \in Insts : onComplete(i)
    \/ Elapse

Spec == Init /\ [][Next]_vars

SpecPair == InitPair /\ [][Next]_vars

\* the browser fires every due timeout and every finished animation, and
\* the clock keeps running
Fairness ==
    /\ WF_vars(Elapse)
    /\ \A i \in Insts : WF_vars(_advance(i)) /\ WF_vars(onComplete(i))

\* one rotator whose container holds at least one element and no text node
InitLive ==
    /\ Init
    /\ \A i \in page : Len(nodes[i]) >= 1 /\ \A p \in 1..Len(nodes[i]) : nodes[i][p] = 1

SpecLive == InitLive /\ [][Next]_vars /\ Fairness

\* the page may call render a second time on a running rotator
NextTwice ==
    \/ Next
    \/ \E i \in Insts : rerender(i)

SpecTwice == Init /\ [][NextTwice]_vars

\* construction with any configuration object, then render
NextConfig ==
    \/ \E cfg \in Supplied : initAttributes(1, cfg)
    \/ \E i \in Insts : render(i)

SpecConfig == InitConfig /\ [][NextConfig]_vars

\* ------------------------------------------------------------ vocabulary
\* the number of element-type children of rotator i's container
ElementCount(i) == Len(ElementNodes(nodes[i], Len(nodes[i])))

\* no fade animation of rotator i is in flight
Idle(i) == rendered[i] /\ anims[i] = <<>>

Shown(i, p) == style[i][p].visibility = "visible" /\ style[i][p].opacity = Opaque

Concealed(i, p) ==
    style[i][p].visibility = "hidden" /\ style[i][p].opacity = Transparent

\* the elements of rotator i, as positions among the child nodes
Elements(i) == {p \in 1..Len(nodes[i]) : nodes[i][p] = 1}

\* ---------------------------------------------------------------- claims
\* C1: whenever a rendered rotator with at least one element has no fade
\* animation in flight, exactly one element is visible with opacity 1 and
\* every other element is hidden with opacity 0.
IdleInvariant ==
    \A i \in page :
        (Idle(i) /\ ElementCount(i) >= 1) =>
            \E p \in Elements(i) :
                /\ Shown(i, p)
                /\ \A q \in Elements(i) \ {p} : Concealed(i, q)

\* C2: an advance from an index c in [0,N) leaves (c+1) mod N, and N advances
\* in a row bring the index back to where it started.
IndexArithmetic ==
    \A i \in page :
        LET n == Len(_elements[i])
            t == trail[i]
        IN  /\ \A k \in 1..(Len(t) - 1) :
                  t[k] \in 0..(n - 1) => t[k + 1] = (t[k] + 1) % n
            /\ \A k \in 1..(Len(t) - n) :
                  (n >= 1 /\ t[k] \in 0..(n - 1)) => t[k + n] = t[k]

\* C2 witness: a three-element rotator has advanced three times from an index
\* in range and is back at it.
IndexArithmeticWitness ==
    \E i \in page :
        /\ Len(_elements[i]) = 3
        /\ Len(trail[i]) = 4
        /\ trail[i][1] = 1
        /\ trail[i][4] = 1

\* C8: a rotator whose container has no element-type child issues no
\* scheduling call, no cookie read or write, and initiates no transition.
ZeroElementGuard ==
    \A i \in page :
        ElementCount(i) = 0 =>
            calls[i] = {} /\ timers[i] = <<>> /\ anims[i] = <<>>

\* C9: with exactly one element child the current index is 0 in every state.
OneElementIndexZero ==
    \A i \in page : ElementCount(i) = 1 => _current[i] = 0

\* the period d = 1000 * show_duration of rotator i, in milliseconds
Period(i) == 1000 * attrs[i].show_duration

\* this step of rotator i arms a timeout (_schedule runs)
Arms(i) == Len(timers'[i]) > Len(timers[i])

\* this step of rotator i is the firing of a timeout: a transition starts
Initiates(i) == Len(timers'[i]) < Len(timers[i])

\* the delay of the timeout this step arms
Armed(i) == timers'[i][Len(timers'[i])]

\* C3: with clock_sync, every transition is initiated on a multiple of d, and
\* the delay armed at time t is d - (t mod d), which ends on a multiple of d.
ClockSyncGrid ==
    [][\A i \in page :
          attrs[i].clock_sync =>
              /\ Initiates(i) => now % Period(i) = 0
              /\ Arms(i) => /\ Armed(i) = Period(i) - (now % Period(i))
                            /\ (now + Armed(i)) % Period(i) = 0]_vars

\* C3 witness: a synced rotator with a two-second period, whose last timeout
\* was armed off the grid by the end of a one-second fade, starts a transition.
ClockSyncGridWitness ==
    \E i \in page :
        /\ attrs[i].clock_sync
        /\ attrs[i].show_duration = 2
        /\ attrs[i].fade_duration = 1
        /\ "advance" \in instant[i]
        /\ Len(trail[i]) >= 3
        /\ now % Period(i) = 0

\* C4 as claimed: with clock_sync the armed delay lies in [0, d), and it is 0
\* when the clock is on a multiple of d.
ClockSyncDelayBelowPeriod ==
    [][\A i \in page :
          (attrs[i].clock_sync /\ Arms(i)) =>
              /\ Armed(i) >= 0
              /\ Armed(i) < Period(i)
              /\ (now % Period(i) = 0 => Armed(i) = 0)]_vars

\* C4 amended: with clock_sync the armed delay lies in (0, d], and it is the
\* whole period d when the clock is on a multiple of d.
ClockSyncDelayRange ==
    [][\A i \in page :
          (attrs[i].clock_sync /\ Arms(i)) =>
              /\ Armed(i) > 0
              /\ Armed(i) <= Period(i)
              /\ (now % Period(i) = 0 => Armed(i) = Period(i))]_vars

\* C4 witness: a synced rotator whose fade ended on a multiple of d has
\* armed a delay of the whole period.
ClockSyncDelayRangeWitness ==
    \E i \in page :
        /\ attrs[i].clock_sync
        /\ now % Period(i) = 0
        /\ instant[i] = {}
        /\ Len(trail[i]) >= 2
        /\ timers[i] = <<Period(i)>>

\* C6: without clock_sync the armed delay is d whatever the clock reads, and
\* a timeout is armed only by render or by the completion of a fade.
UnsyncedDelay ==
    [][\A i \in page :
          (~attrs[i].clock_sync /\ Arms(i)) =>
              /\ Armed(i) = Period(i)
              /\ \/ ~rendered[i] /\ rendered'[i]
                 \/ Len(anims'[i]) < Len(anims[i])]_vars

\* C6 witness: an unsynced rotator whose fade ended off the grid has armed a
\* delay of the whole period.
UnsyncedDelayWitness ==
    \E i \in page :
        /\ ~attrs[i].clock_sync
        /\ now % Period(i) # 0
        /\ instant[i] = {}
        /\ Len(trail[i]) >= 2
        /\ anims[i] = <<>>
        /\ timers[i] = <<Period(i)>>

\* rotators i and j are both synced, with the same durations, and both were
\* rendered before the present instant
RunningInSync(i, j) ==
    /\ attrs[i].clock_sync /\ attrs[j].clock_sync
    /\ attrs[i].show_duration = attrs[j].show_duration
    /\ attrs[i].fade_duration = attrs[j].fade_duration
    /\ rendered[i] /\ rendered[j]
    /\ "render" \notin instant[i] \cup instant[j]

PersistenceRoundTrip ==
    [][\A i \in page :
          (~rendered[i] /\ rendered'[i] /\ attrs[i].cookie_persist) =>
              \A k \in 0..(Len(_elements'[i]) - 1) :
                  cookies[attrs[i].cookie_name] = String(k) => _current'[i] = k]_vars

\* C7 witness: the second rotator has just been rendered with the index 2
\* the first one had stored after two advances.
PersistenceRoundTripWitness ==
    /\ page = {1, 2}
    /\ attrs[2].cookie_persist
    /\ "render" \in instant[2]
    /\ Len(_elements[2]) = 3
    /\ trail[1] = <<0, 1, 2>>
    /\ cookies[attrs[2].cookie_name] = "2"
    /\ _current[2] = 2

\* the first and the last element of rotator i, as child-node positions
FirstElement(i) == _elements[i][1]
LastElement(i)  == _elements[i][Len(_elements[i])]

\* the fade-out of the last element, started from opacity 1, is the one
\* animation of rotator i in flight
WrapFade(i) ==
    /\ Len(_elements[i]) >= 2
    /\ Len(anims[i]) = 1
    /\ anims[i][1].el = LastElement(i)
    /\ anims[i][1].from = Opaque
    /\ anims[i][1].to = Transparent
    /\ _current[i] = 0

\* C10: with N >= 2, no animation in flight and the index at N-1, an advance
\* at once makes element 0 visible with opacity 1 and touches no other style,
\* and starts a single animation, of element N-1 from opacity 1 to 0; while
\* it runs only the opacity of element N-1 changes, downwards to 0; and when
\* it completes element N-1 is hidden, no animation is in flight, element 0
\* is visible with opacity 1 and elements 1..N-1 are hidden with opacity 0.
WrapTransition ==
    [][\A i \in page :
          LET n == Len(_elements[i])
          IN  /\ (Initiates(i) /\ n >= 2 /\ Idle(i) /\ _current[i] = n - 1) =>
                    /\ Shown(i, FirstElement(i))'
                    /\ \A p \in Elements(i) \ {FirstElement(i)} :
                          style'[i][p] = style[i][p]
                    /\ style[i][LastElement(i)].opacity = Opaque
                    /\ WrapFade(i)'
              /\ (WrapFade(i) /\ now' # now) =>
                    /\ \A p \in Elements(i) \ {LastElement(i)} :
                          style'[i][p] = style[i][p]
                    /\ style'[i][LastElement(i)].opacity
                          < style[i][LastElement(i)].opacity
                    /\ style'[i][LastElement(i)].visibility = "visible"
                    /\ anims'[i][1].left = 0 =>
                          style'[i][LastElement(i)].opacity = Transparent
              /\ (WrapFade(i) /\ anims'[i] = <<>>) =>
                    /\ Idle(i)'
                    /\ Shown(i, FirstElement(i))'
                    /\ \A p \in Elements(i) \ {FirstElement(i)} :
                          Concealed(i, p)']_vars

\* C10 witness: a three-element rotator has wrapped from index 2 to index 0,
\* its fade-out has completed and the next timeout is armed.
WrapTransitionWitness ==
    \E i \in page :
        /\ Len(_elements[i]) = 3
        /\ Idle(i)
        /\ timers[i] # <<>>
        /\ Len(trail[i]) >= 2
        /\ trail[i][Len(trail[i]) - 1] = 2
        /\ trail[i][Len(trail[i])] = 0
        /\ Shown(i, FirstElement(i))
        /\ Concealed(i, LastElement(i))

\* the fade-in of the element after the outgoing one, started from opacity
\* 0, is the one animation of rotator i in flight
FadeIn(i) ==
    /\ Len(_elements[i]) >= 2
    /\ Len(anims[i]) = 1
    /\ _current[i] \in 1..(Len(_elements[i]) - 1)
    /\ anims[i][1].el = _elements[i][_current[i] + 1]
    /\ anims[i][1].hide = _elements[i][_current[i]]
    /\ anims[i][1].from = Transparent
    /\ anims[i][1].to = Opaque

\* C11: with N >= 2, no animation in flight and the index at c, c+1 < N, an
\* advance makes element c+1 visible, touches no other style and starts a
\* single animation, of element c+1 from opacity 0 to 1; while it runs only
\* the opacity of element c+1 changes, upwards to 1, and element c stays
\* visible with opacity 1; when it completes no animation is in flight,
\* element c+1 is visible with opacity 1 and every other element, c
\* included, is hidden with opacity 0.
NonWrapTransition ==
    [][\A i \in page :
          LET n == Len(_elements[i])
          IN  /\ (Initiates(i) /\ n >= 2 /\ Idle(i) /\ _current[i] \in 0..(n - 2)) =>
                    LET cur == _elements[i][_current[i] + 1]
                        nxt == _elements[i][_current[i] + 2]
                    IN  /\ style'[i][nxt].visibility = "visible"
                        /\ style'[i][nxt].opacity = Transparent
                        /\ \A p \in Elements(i) \ {nxt} : style'[i][p] = style[i][p]
                        /\ Shown(i, cur)
                        /\ FadeIn(i)'
                        /\ _current'[i] = _current[i] + 1
              /\ (FadeIn(i) /\ now' # now) =>
                    LET cur == anims[i][1].hide
                        nxt == anims[i][1].el
                    IN  /\ \A p \in Elements(i) \ {nxt} : style'[i][p] = style[i][p]
                        /\ \E p \in {cur} : Shown(i, p)'
                        /\ style'[i][nxt].opacity > style[i][nxt].opacity
                        /\ style'[i][nxt].visibility = "visible"
                        /\ anims'[i][1].left = 0 => style'[i][nxt].opacity = Opaque
              /\ (FadeIn(i) /\ anims'[i] = <<>>) =>
                    LET nxt == anims[i][1].el
                    IN  /\ Idle(i)'
                        /\ \E p \in {nxt} : Shown(i, p)'
                        /\ \A p \in Elements(i) \ {nxt} : Concealed(i, p)']_vars

\* C11 witness: a three-element rotator has gone from index 0 to index 1,
\* the fade-in has completed and the next timeout is armed.
NonWrapTransitionWitness ==
    \E i \in page :
        /\ Len(_elements[i]) = 3
        /\ Idle(i)
        /\ timers[i] # <<>>
        /\ Len(trail[i]) >= 2
        /\ trail[i][Len(trail[i]) - 1] = 0
        /\ trail[i][Len(trail[i])] = 1
        /\ Shown(i, _elements[i][2])
        /\ Concealed(i, _elements[i][1])
        /\ Concealed(i, _elements[i][3])

\* C12: after a second call of render on a running rotator there is exactly
\* one pending timeout or animation in flight, as after a single call (none
\* when the container has no child node).
RenderIdempotent ==
    \A i \in page :
        again[i] =>
            Len(timers[i]) + Len(anims[i]) = (IF Len(nodes[i]) = 0 THEN 0 ELSE 1)

\* C13: a duration that is not a positive number is refused, so the
\* show_duration and the fade_duration of a constructed rotator are positive
\* and the period d = 1000 * show_duration is positive.
PositiveDurations ==
    \A i \in page :
        /\ attrs[i].show_duration > 0
        /\ attrs[i].fade_duration > 0
        /\ Period(i) > 0

\* C14: once rendered with N >= 1 elements, the current index is an integer
\* in [0,N), however it was initialised and after any number of advances.
IndexInRange ==
    \A i \in page :
        (rendered[i] /\ ElementCount(i) >= 1) =>
            _current[i] \in 0..(ElementCount(i) - 1)

\* C15: after a single render there is never more than one pending timeout
\* or animation in flight; a timeout is armed after render only by the
\* completion of the animation in flight, and an animation is started only
\* by the firing of the pending timeout.
StrictAlternation ==
    [][\A i \in page :
          /\ Len(timers'[i]) + Len(anims'[i]) <= 1
          /\ (rendered[i] /\ Arms(i)) =>
                /\ Len(anims[i]) = 1 /\ anims[i][1].left = 0
                /\ anims'[i] = <<>>
                /\ timers[i] = <<>>
          /\ Len(anims'[i]) > Len(anims[i]) =>
                /\ timers[i] = <<0>>
                /\ timers'[i] = <<>>
                /\ anims[i] = <<>>]_vars

\* C15 witness: a rotator in its third transition or later has an animation
\* in flight and no pending timeout.
StrictAlternationWitness ==
    \E i \in page :
        /\ Len(trail[i]) >= 4
        /\ Len(anims[i]) = 1
        /\ timers[i] = <<>>

\* C16: with cookie_persist, from the first advance on the stored 'current'
\* sub-cookie is the index held in memory, in every state.
WriteThrough ==
    \A i \in page :
        (attrs[i].cookie_persist /\ "advance" \in calls[i]) =>
            /\ cookies[attrs[i].cookie_name] = String(_current[i])
            /\ ElementCount(i) >= 1 => Number(cookies[attrs[i].cookie_name]) = _current[i]

\* C16 witness: a three-element rotator that started from a stored 1 has
\* advanced twice, to 0, and the cookie holds 0.
WriteThroughWitness ==
    \E i \in page :
        /\ attrs[i].cookie_persist
        /\ Len(_elements[i]) = 3
        /\ trail[i] = <<1, 2, 0>>
        /\ cookies[attrs[i].cookie_name] = "0"

\* C17: while a fade is in flight the current index is already the target:
\* the element the fade will hide is the one at the index before it, and
\* with cookie_persist the cookie holds the target too.
AdvanceBeforeFade ==
    \A i \in page :
        \A k \in 1..Len(anims[i]) :
            LET n == Len(_elements[i])
                a == anims[i][k]
            IN  a.hide # Undefined =>
                    /\ \E prev \in 0..(n - 1) :
                          /\ _elements[i][prev + 1] = a.hide
                          /\ _current[i] = (prev + 1) % n
                    /\ n >= 2 => _elements[i][_current[i] + 1] # a.hide
                    /\ a.to = Opaque => _elements[i][_current[i] + 1] = a.el
                    /\ attrs[i].cookie_persist =>
                          cookies[attrs[i].cookie_name] = String(_current[i])

\* C17 witness: a three-element rotator is half way through the fade from
\* element 1 to element 2 and its index is 2.
AdvanceBeforeFadeWitness ==
    \E i \in page :
        /\ Len(_elements[i]) = 3
        /\ Len(anims[i]) = 1
        /\ anims[i][1].hide = _elements[i][2]
        /\ anims[i][1].left = anims[i][1].total - Tick
        /\ style[i][_elements[i][2]].opacity = Opaque
        /\ _current[i] = 2

\* the elements of rotator i with an opacity other than 0
Lit(i) == {p \in Elements(i) : style[i][p].opacity # Transparent}

\* C18: once rendered, at most two elements have a nonzero opacity.
AtMostTwoLit ==
    \A i \in page : rendered[i] => Cardinality(Lit(i)) <= 2

\* C18 witness: half way through a fade of a three-element rotator exactly
\* two elements have a nonzero opacity, one of them partly faded.
AtMostTwoLitWitness ==
    \E i \in page :
        /\ Len(_elements[i]) = 3
        /\ Len(anims[i]) = 1
        /\ Cardinality(Lit(i)) = 2
        /\ \E p \in Lit(i) : style[i][p].opacity # Opaque

\* C20: once rendered, the zIndex of every element is its ordinal among the
\* element children (text nodes not counted), in every later state; and while
\* a fade is in flight with N >= 2 the animated element lies strictly above
\* every other visible element.
Stacking ==
    \A i \in page :
        rendered[i] =>
            /\ \A j \in 1..Len(_elements[i]) :
                  /\ style[i][_elements[i][j]].zIndex = j - 1
                  /\ nodes[i][_elements[i][j]] = 1
                  /\ Cardinality({q \in 1..(_elements[i][j] - 1) : nodes[i][q] = 1}) = j - 1
            /\ \A k \in 1..Len(anims[i]) :
                  (Len(_elements[i]) >= 2 /\ anims[i][k].el # Undefined) =>
                      \A q \in Elements(i) \ {anims[i][k].el} :
                          style[i][q].visibility = "visible" =>
                              style[i][q].zIndex < style[i][anims[i][k].el].zIndex

\* C20 witness: in a container of a text node and two elements the wrap fade
\* is half done: the outgoing second element, zIndex 1, is animated above
\* the visible first element, zIndex 0.
StackingWitness ==
    \E i \in page :
        /\ nodes[i] = <<3, 1, 1>>
        /\ Len(anims[i]) = 1
        /\ anims[i][1].el = 3
        /\ anims[i][1].to = Transparent
        /\ anims[i][1].left < anims[i][1].total
        /\ style[i][2].visibility = "visible"
        /\ style[i][2].zIndex = 0
        /\ style[i][3].zIndex = 1

\* C19: with due timeouts and finished animations always served, a rendered
\* rotator of N >= 1 elements that is idle always starts a fade, a fade in
\* flight always ends in an idle state with a timeout armed, and every index
\* below N becomes the current index again and again.
RotatesForever ==
    \A i \in Insts :
        /\ (i \in page /\ rendered[i] /\ ElementCount(i) >= 1 /\ anims[i] = <<>>)
               ~> (Len(anims[i]) = 1 /\ timers[i] = <<>>)
        /\ (i \in page /\ Len(anims[i]) = 1)
               ~> (anims[i] = <<>> /\ Len(timers[i]) = 1)
        /\ \A k \in 0..(MaxNodes - 1) :
               (i \in page /\ rendered[i] /\ k < ElementCount(i))
                   ~> (_current[i] = k /\ anims[i] = <<>>)

\* C19 witness: a three-element rotator has gone once round, 0 1 2 0, and
\* is idle again with its next timeout armed.
RotatesForeverWitness ==
    \E i \in page :
        /\ Len(_elements[i]) = 3
        /\ trail[i] = <<0, 1, 2, 0>>
        /\ anims[i] = <<>>
        /\ Len(timers[i]) = 1

====
